---- MODULE Spec2Model ----
(***************************************************************************)
(* Model of ollie: `ollie save MODEL_NAME` (cmd/save.go) and               *)
(* `ollie load TARBALL_FILE` (cmd/load.go, cmd/util.go).                   *)
(*                                                                         *)
(* Strings are finite sequences of symbols.  A symbol is one character     *)
(* ("/", ":", ".", "-", "a", "b", ...) or a fixed word of letters that no  *)
(* operation of the program looks into ("manifests", "blobs", "sha256",    *)
(* "registry.ollama.ai", ...).  Every string operation of the program      *)
(* (regexp matching, TrimPrefix, HasSuffix, filepath.Join / Clean) is      *)
(* computed on these sequences the way the Go library computes it.         *)
(***************************************************************************)
EXTENDS Integers, Sequences, FiniteSets, TLC

VARIABLES
    pc,         \* position of the run
    cmd,        \* the subcommand running: "save" or "load"
    args,       \* the positional argument of the command (args[0])
    given,      \* how args was written: [shape, host, namespace, model, tag]
    modelName,  \* *ModelName returned by parseModelName, or Nil
    manifest,   \* decoded Manifest the manifest file holds
    filePaths,  \* []string returned by getFilePaths
    result,     \* error returned by the command ("nil" when none)
    isTerminal, \* term.IsTerminal(os.Stdout.Fd())
    env,        \* environment of the invocation: OLLAMA_MODELS, home directory
    account,    \* what the user/group database holds for "ollama"
    fs,         \* the filesystem: absolute path -> [kind, data, owner]
    tarball,    \* the archive file `load` is pointed at
    stdout,     \* tar entries written to standard output
    stderr,     \* lines printed to standard error by the command itself
    idx,        \* position of the loop over filePaths / over the archive entries
    modelPath,  \* what getOllamaModelsPath returned to this invocation
    srcRoot,    \* modelPath of the save that produced the tarball being loaded
    owner,      \* uid, gid from getOllamaUIDGID: "ollama", or "none" for -1, -1
    fault,      \* the I/O failure the environment raised during the run, if any
    log         \* file operations performed, in order: [op, path, k]

planVars == <<pc, args, given, modelName, manifest, filePaths, result>>
hostVars == <<cmd, isTerminal, env, account, fs, tarball, stdout, stderr, idx, modelPath,
              srcRoot, owner, fault, log>>
vars == <<planVars, hostVars>>

Nil == "nil"

\* a nil *ModelName, and a part a written reference leaves out
NilName == [nil |-> TRUE]
Absent  == <<"absent">>

-----------------------------------------------------------------------------
(* Strings                                                                 *)

Slash == "/"
Colon == ":"
Dot   == "."

\* s[from..] (1-based), the empty string when from is past the end
Tail_(s, from) == SubSeq(s, from, Len(s))

\* strings.HasPrefix / strings.HasSuffix / strings.TrimPrefix
HasPrefix(s, p) == Len(s) >= Len(p) /\ SubSeq(s, 1, Len(p)) = p
HasSuffix(s, p) == Len(s) >= Len(p) /\ SubSeq(s, Len(s) - Len(p) + 1, Len(s)) = p
TrimPrefix(s, p) == IF HasPrefix(s, p) THEN Tail_(s, Len(p) + 1) ELSE s

\* index of the first occurrence of symbol c in s at or after from, 0 if none
IndexFrom(s, c, from) ==
    LET hits == {i \in from..Len(s) : s[i] = c}
    IN  IF hits = {} THEN 0 ELSE CHOOSE i \in hits : \A j \in hits : i <= j

Has(s, c) == \E i \in 1..Len(s) : s[i] = c

-----------------------------------------------------------------------------
(* parseModelName (cmd/save.go)                                            *)

registry == <<"registry.ollama.ai">>
library  == <<"library">>
latest   == <<"latest">>

ModelName(h, n, m, t) == [Host |-> h, Namespace |-> n, Model |-> m, Tag |-> t]

NoMatch == [nomatch |-> TRUE]

\* A match of ^(?P<namespace>[^/]+)/REST$ fixes the first group: [^/]+ must end
\* right before a "/" and hold none, so it is s up to its first "/".
\* A match of (?P<model>[^:]+):(?P<tag>.+)$ fixes model the same way: it runs
\* up to the first ":" and tag is everything after it, "/" and ":" included.

\* ^(?P<model>[^:]+)$
MatchModel(s, h, n) ==
    IF s # <<>> /\ ~Has(s, Colon) THEN ModelName(h, n, s, latest) ELSE NoMatch

\* ^(?P<model>[^:]+):(?P<tag>.+)$
MatchModelTag(s, h, n) ==
    LET k == IndexFrom(s, Colon, 1)
    IN  IF k > 1 /\ k < Len(s)
        THEN ModelName(h, n, SubSeq(s, 1, k - 1), Tail_(s, k + 1))
        ELSE NoMatch

\* ^(?P<namespace>[^/]+)/(?P<model>[^:]+)$
MatchNsModel(s, h) ==
    LET i == IndexFrom(s, Slash, 1)
    IN  IF i > 1 THEN MatchModel(Tail_(s, i + 1), h, SubSeq(s, 1, i - 1)) ELSE NoMatch

\* ^(?P<namespace>[^/]+)/(?P<model>[^:]+):(?P<tag>.+)$
MatchNsModelTag(s, h) ==
    LET i == IndexFrom(s, Slash, 1)
    IN  IF i > 1 THEN MatchModelTag(Tail_(s, i + 1), h, SubSeq(s, 1, i - 1)) ELSE NoMatch

\* ^(?P<host>[^/]+)/(?P<namespace>[^/]+)/(?P<model>[^:]+):(?P<tag>.+)$
MatchHostNsModelTag(s) ==
    LET i == IndexFrom(s, Slash, 1)
    IN  IF i > 1 THEN MatchNsModelTag(Tail_(s, i + 1), SubSeq(s, 1, i - 1)) ELSE NoMatch

\* the patterns slice, in the order the loop tries it
patterns(s) ==
    << MatchHostNsModelTag(s),
       MatchNsModelTag(s, registry),
       MatchNsModel(s, registry),
       MatchModelTag(s, registry, library),
       MatchModel(s, registry, library) >>

\* a plausible slip: the bare shapes tried before the qualified ones
parseModelNameShortFirst(name) ==
    LET p == patterns(name)
        q == <<p[5], p[4], p[3], p[2], p[1]>>
        hits == {i \in 1..Len(q) : q[i] # NoMatch}
    IN  IF hits = {} THEN NilName
        ELSE q[CHOOSE i \in hits : \A j \in hits : i <= j]

\* first pattern that matches wins; NilName stands for the (nil, error) return
parseModelName(name) ==
    LET p == patterns(name)
        hits == {i \in 1..Len(p) : p[i] # NoMatch}
    IN  IF hits = {} THEN NilName
        ELSE p[CHOOSE i \in hits : \A j \in hits : i <= j]

-----------------------------------------------------------------------------
(* path/filepath on Unix                                                   *)

\* the components of s between "/" separators, empty ones included
RECURSIVE Split(_)
Split(s) ==
    LET i == IndexFrom(s, Slash, 1)
    IN  IF i = 0 THEN <<s>> ELSE <<SubSeq(s, 1, i - 1)>> \o Split(Tail_(s, i + 1))

DotDot == <<Dot, Dot>>

\* Clean's pass over the components: out is the stack of components kept
RECURSIVE CleanParts(_, _, _)
CleanParts(parts, out, rooted) ==
    IF parts = <<>> THEN out
    ELSE LET c == Head(parts)
             rest == Tail(parts)
         IN  CASE c = <<>> \/ c = <<Dot>> -> CleanParts(rest, out, rooted)
               [] c = DotDot ->
                    IF out # <<>> /\ out[Len(out)] # DotDot
                    THEN CleanParts(rest, SubSeq(out, 1, Len(out) - 1), rooted)
                    ELSE IF rooted THEN CleanParts(rest, out, rooted)
                    ELSE CleanParts(rest, Append(out, c), rooted)
               [] OTHER -> CleanParts(rest, Append(out, c), rooted)

\* elems joined by "/"
RECURSIVE JoinSep(_)
JoinSep(elems) ==
    IF elems = <<>> THEN <<>>
    ELSE IF Len(elems) = 1 THEN elems[1]
    ELSE elems[1] \o <<Slash>> \o JoinSep(Tail(elems))

\* filepath.Clean
Clean(s) ==
    IF s = <<>> THEN <<Dot>>
    ELSE LET rooted == s[1] = Slash
             body == JoinSep(CleanParts(Split(s), <<>>, rooted))
             out == IF rooted THEN <<Slash>> \o body ELSE body
         IN  IF out = <<>> THEN <<Dot>> ELSE out

\* filepath.Join: the non-empty elements joined by "/" and cleaned
Join(elems) ==
    LET ne == SelectSeq(elems, LAMBDA e : e # <<>>)
    IN  IF ne = <<>> THEN <<>> ELSE Clean(JoinSep(ne))

\* an absolute, clean path p lies inside directory root
Inside(root, p) == p = root \/ HasPrefix(p, root \o <<Slash>>)

-----------------------------------------------------------------------------
(* parseManifest, getFilePaths (cmd/save.go)                               *)

manifests == <<"manifests">>
blobs     == <<"blobs">>
sha256Colon == <<"sha256", Colon>>
sha256Dash  == <<"sha256", "-">>

\* type Manifest
Manifest(c, ls) == [Config |-> c, Layers |-> ls]

\* what the file at the manifest path holds: a JSON document of the Manifest
\* shape, bytes json.Unmarshal rejects, or nothing readable
ManifestFile(st, m) == [state |-> st, doc |-> m]

\* "sha256-"+strings.TrimPrefix(digest, "sha256:")
Sha(digest) == sha256Dash \o TrimPrefix(digest, sha256Colon)

\* the loop over manifest.Layers
RECURSIVE LayerShas(_)
LayerShas(layers) ==
    IF layers = <<>> THEN <<>>
    ELSE (IF Head(layers) # <<>> THEN <<Sha(Head(layers))>> ELSE <<>>)
         \o LayerShas(Tail(layers))

\* a plausible slip: the digest's ":" turned into "-" whatever the algorithm
parseManifestAnyAlg(file) ==
    IF file.state = "unreadable" THEN [err |-> "ManifestReadError", shas |-> <<>>]
    ELSE IF file.state = "malformed" THEN [err |-> "ManifestParseError", shas |-> <<>>]
    ELSE LET dash(d) == [i \in 1..Len(d) |-> IF d[i] = Colon THEN "-" ELSE d[i]]
             all == SelectSeq(<<file.doc.Config>> \o file.doc.Layers,
                              LAMBDA d : d # <<>>)
         IN  [err |-> Nil, shas |-> [i \in 1..Len(all) |-> dash(all[i])]]

\* parseManifest, on the content of the file at the path it is given
parseManifest(file) ==
    IF file.state = "unreadable" THEN [err |-> "ManifestReadError", shas |-> <<>>]
    ELSE IF file.state = "malformed" THEN [err |-> "ManifestParseError", shas |-> <<>>]
    ELSE [err |-> Nil,
          shas |-> (IF file.doc.Config # <<>> THEN <<Sha(file.doc.Config)>> ELSE <<>>)
                   \o LayerShas(file.doc.Layers)]

\* the relative manifest path getFilePaths builds (and, under modelPath, reads)
ManifestRel(mn) == Join(<<manifests, mn.Host, mn.Namespace, mn.Model, mn.Tag>>)

\* a plausible slip: the blobs listed ahead of the manifest
getFilePathsBlobsFirst(mn, file) ==
    LET parsed == parseManifest(file)
    IN  IF parsed.err # Nil THEN [err |-> parsed.err, paths |-> <<>>]
        ELSE [err |-> Nil,
              paths |-> [i \in 1..Len(parsed.shas) |-> Join(<<blobs, parsed.shas[i]>>)]
                        \o <<ManifestRel(mn)>>]

\* getFilePaths, with the manifest file it finds at the manifest path
getFilePaths(mn, file) ==
    LET parsed == parseManifest(file)
    IN  IF parsed.err # Nil THEN [err |-> parsed.err, paths |-> <<>>]
        ELSE [err |-> Nil,
              paths |-> <<ManifestRel(mn)>>
                        \o [i \in 1..Len(parsed.shas) |-> Join(<<blobs, parsed.shas[i]>>)]]

-----------------------------------------------------------------------------
(* getOllamaModelsPath, getOllamaUIDGID                                    *)

systemPath == <<Slash, "usr", Slash, "share", Slash, "ollama", Slash, ".ollama",
                Slash, "models">>

NoHome == <<"nohome">>

\* the environment of one invocation; home = NoHome makes os.UserHomeDir fail
Env(models, home) == [OLLAMA_MODELS |-> models, home |-> home]

\* getOllamaModelsPath: OLLAMA_MODELS, else systemPath if it can be statted,
\* else ~/.ollama/models.  stats lists the paths it stats on the way.
getOllamaModelsPath(e, f) ==
    IF e.OLLAMA_MODELS # <<>>
    THEN [err |-> Nil, path |-> e.OLLAMA_MODELS, stats |-> <<>>]
    ELSE IF systemPath \in DOMAIN f
    THEN [err |-> Nil, path |-> systemPath, stats |-> <<systemPath>>]
    ELSE IF e.home = NoHome
    THEN [err |-> "HomeDirError", path |-> <<>>, stats |-> <<systemPath>>]
    ELSE [err |-> Nil, path |-> Join(<<e.home, <<".ollama">>, <<"models">>>>),
          stats |-> <<systemPath>>]

\* the "ollama" rows of the user and group databases: "ok" (a numeric id),
\* "missing" (the lookup fails) or "badid" (an id strconv.Atoi rejects)
Account(u, g) == [user |-> u, group |-> g]

\* getOllamaUIDGID: both lookups first, then the two conversions
getOllamaUIDGID(a) ==
    IF a.user = "missing" THEN [err |-> Nil, owner |-> "none"]
    ELSE IF a.group = "missing" THEN [err |-> Nil, owner |-> "none"]
    ELSE IF a.user = "badid" THEN [err |-> "AccountLookupError", owner |-> "none"]
    ELSE IF a.group = "badid" THEN [err |-> "AccountLookupError", owner |-> "none"]
    ELSE [err |-> Nil, owner |-> "ollama"]

-----------------------------------------------------------------------------
(* The filesystem                                                          *)

Root == <<Slash>>

DirNode(o)     == [kind |-> "dir", data |-> [bytes |-> "-"], owner |-> o]
FileNode(d, o) == [kind |-> "file", data |-> d, owner |-> o]

\* content of a blob file, and of a file whose copy broke off half way
Bytes(b) == [bytes |-> b]
Partial == Bytes("partial")
Empty   == Bytes("")

\* filepath.Dir of a clean absolute path
Dir(p) ==
    LET cut == {i \in 1..Len(p) : p[i] = Slash}
        last == CHOOSE i \in cut : \A j \in cut : j <= i
    IN  IF last = 1 THEN Root ELSE SubSeq(p, 1, last - 1)

Op(o, p, k) == [op |-> o, path |-> p, k |-> k]

\* os.MkdirAll(p): nothing to do if p is a directory, ENOTDIR if p or one of
\* its ancestors is a file, else the missing ancestors top down and then p.
\* made lists the directories created, in the order they were created.
RECURSIVE MkdirAll(_, _)
MkdirAll(f, p) ==
    IF p \in DOMAIN f
    THEN [err |-> f[p].kind # "dir", fs |-> f, made |-> <<>>]
    ELSE LET up == MkdirAll(f, Dir(p))
         IN  IF up.err THEN up
             ELSE [err |-> FALSE, fs |-> (p :> DirNode("invoker")) @@ up.fs,
                   made |-> Append(up.made, p)]

\* os.Chown(p, uid, gid)
Chown(f, p, o) == [f EXCEPT ![p].owner = o]

\* the paths written so far that a step created, truncated or chowned
Touched(l) ==
    {l[i].path : i \in {j \in 1..Len(l) :
                            l[j].op \in {"mkdir", "create", "truncate", "write", "chown"}}}
Created(l) == {l[i].path : i \in {j \in 1..Len(l) : l[j].op \in {"mkdir", "create"}}}

-----------------------------------------------------------------------------
(* save (cmd/save.go)                                                      *)

TarEntry(name, kind, data) == [name |-> name, kind |-> kind, data |-> data]

Unreadable == ManifestFile("unreadable", Manifest(<<>>, <<>>))

\* os.ReadFile(path) followed by json.Unmarshal into a Manifest: the document
\* if the file holds one, a parse error on any other file content, a read
\* error when path is missing or is a directory
ReadManifest(f, path) ==
    IF path \notin DOMAIN f \/ f[path].kind # "file" THEN Unreadable
    ELSE IF "state" \in DOMAIN f[path].data THEN f[path].data
    ELSE ManifestFile("malformed", Manifest(<<>>, <<>>))

\* everything RunE of saveCmd does before createTarball
SaveOutcome(res, mn, mp, file, paths, ops) ==
    [result |-> res, modelName |-> mn, modelPath |-> mp, manifest |-> file,
     filePaths |-> paths, log |-> ops]

Refused == SaveOutcome("RefusedTerminalOutput", NilName, <<>>, Unreadable, <<>>, <<>>)

\* RunE of saveCmd from parseModelName to getFilePaths
savePlan(a, e, f) ==
    LET mn == parseModelName(a) IN
    IF mn = NilName
    THEN SaveOutcome("InvalidReference", NilName, <<>>, Unreadable, <<>>, <<>>)
    ELSE LET gp == getOllamaModelsPath(e, f)
             stats == [i \in 1..Len(gp.stats) |-> Op("stat", gp.stats[i], 0)] IN
    IF gp.err # Nil
    THEN SaveOutcome(gp.err, mn, <<>>, Unreadable, <<>>, stats)
    ELSE LET manifestPath == Join(<<gp.path, manifests, mn.Host, mn.Namespace,
                                    mn.Model, mn.Tag>>)
             file == ReadManifest(f, manifestPath)
             planned == getFilePaths(mn, file)
         IN  SaveOutcome(planned.err, mn, gp.path, file, planned.paths,
                         Append(stats, Op("readfile", manifestPath, 0)))

\* a plausible slip: the terminal check made after the planning, not before
savePreludeCheckLate(a, term, e, f) ==
    LET plan == savePlan(a, e, f)
    IN  IF plan.result # Nil THEN plan
        ELSE IF term THEN [plan EXCEPT !.result = "RefusedTerminalOutput"]
        ELSE plan

\* RunE of saveCmd up to the call of createTarball
savePrelude(a, term, e, f) ==
    IF term THEN Refused ELSE savePlan(a, e, f)

\* a plausible slip: header.Name left as tar.FileInfoHeader sets it, the base
\* name of the file
tarOneBaseName(f, mp, relPath, k, flt) ==
    LET absPath == Join(<<mp, relPath>>)
        base == Split(relPath)[Len(Split(relPath))]
        ops == <<Op("stat", absPath, k), Op("open", absPath, k), Op("read", absPath, k)>>
    IN  IF absPath \notin DOMAIN f \/ flt # "none" \/ f[absPath].kind = "dir"
        THEN [err |-> "ArchiveWriteError", out |-> <<>>, log |-> <<>>, hit |-> flt # "none"]
        ELSE [err |-> Nil, out |-> <<TarEntry(base, "file", f[absPath].data)>>,
              log |-> ops, hit |-> FALSE]

\* one turn of the loop of createTarball, with the failure flt the
\* environment raises in it ("none", "write": standard output breaks,
\* "read": the source file cannot be read to its end)
tarOne(f, mp, relPath, k, flt) ==
    LET absPath == Join(<<mp, relPath>>) IN
    IF absPath \notin DOMAIN f
    THEN [err |-> "ArchiveWriteError", out |-> <<>>, log |-> <<Op("stat", absPath, k)>>,
          hit |-> FALSE]
    ELSE LET stat == <<Op("stat", absPath, k)>> IN
    IF flt = "write"
    THEN [err |-> "ArchiveWriteError", out |-> <<>>, log |-> stat, hit |-> TRUE]
    ELSE LET opened == Append(stat, Op("open", absPath, k)) IN
    IF f[absPath].kind = "dir"
    THEN [err |-> "ArchiveWriteError", out |-> <<TarEntry(relPath, "dir", Empty)>>,
          log |-> opened, hit |-> FALSE]
    ELSE IF flt = "read"
    THEN [err |-> "ArchiveWriteError", out |-> <<TarEntry(relPath, "file", Partial)>>,
          log |-> Append(opened, Op("read", absPath, k)), hit |-> TRUE]
    ELSE [err |-> Nil, out |-> <<TarEntry(relPath, "file", f[absPath].data)>>,
          log |-> Append(opened, Op("read", absPath, k)), hit |-> FALSE]

-----------------------------------------------------------------------------
(* load (cmd/load.go)                                                      *)

\* the chain of strings.HasSuffix tests of extractTarball
Suffix(a, b)    == <<Dot, a, Dot, b>>
SuffixTar       == <<Dot, "tar">>

\* a plausible slip: anything unrecognized read as a plain tar
CodecLenient(fileName) ==
    IF HasSuffix(fileName, Suffix("tar", "xz")) THEN "xz"
    ELSE IF HasSuffix(fileName, Suffix("tar", "gz")) THEN "gz"
    ELSE "tar"

Codec(fileName) ==
    IF HasSuffix(fileName, Suffix("tar", "xz")) THEN "xz"
    ELSE IF HasSuffix(fileName, Suffix("tar", "gz")) THEN "gz"
    ELSE IF HasSuffix(fileName, Suffix("tar", "bz2")) \/ HasSuffix(fileName, Suffix("tar", "bz"))
    THEN "bz2"
    ELSE IF HasSuffix(fileName, SuffixTar) THEN "tar"
    ELSE "unsupported"

\* the archive file: missing, or bytes that are entries under some codec
Tarball(st, codec, entries) == [state |-> st, codec |-> codec, entries |-> entries]
NoTarball == Tarball("missing", "tar", <<>>)

\* extractTarball up to its loop: the account lookup, os.Open, the reader
loadPrelude(fileName, a, tb) ==
    LET ug == getOllamaUIDGID(a) IN
    IF ug.err # Nil THEN [err |-> ug.err, owner |-> "none"]
    ELSE IF tb.state = "missing" THEN [err |-> "OpenError", owner |-> ug.owner]
    ELSE IF Codec(fileName) = "unsupported"
    THEN [err |-> "UnsupportedFormat", owner |-> ug.owner]
    ELSE IF Codec(fileName) \in {"xz", "gz"} /\ tb.codec # Codec(fileName)
    THEN [err |-> "ArchiveReadError", owner |-> ug.owner]
    ELSE [err |-> Nil, owner |-> ug.owner]

Step(err, f, ops, hit) == [err |-> err, fs |-> f, log |-> ops, hit |-> hit]

MadeOps(made, k) == [i \in 1..Len(made) |-> Op("mkdir", made[i], k)]

\* the body of the loop of extractTarball for a directory entry, after the
\* header was read
extractDir(f, target, k, own, flt, ops) ==
    LET mk == MkdirAll(f, target) IN
    IF flt = "mkdir" \/ mk.err
    THEN Step("ExtractWriteError", f, ops, flt = "mkdir")
    ELSE LET made == ops \o MadeOps(mk.made, k) IN
    IF own = "none" THEN Step(Nil, mk.fs, made, FALSE)
    ELSE IF flt = "chown" THEN Step("ExtractWriteError", mk.fs, made, TRUE)
    ELSE Step(Nil, Chown(mk.fs, target, own), Append(made, Op("chown", target, k)), FALSE)

\* the body of the loop for any other entry
extractFile(f, target, data, k, own, flt, ops) ==
    LET parentDir == Dir(target)
        mk == MkdirAll(f, parentDir) IN
    IF flt = "mkdir" \/ mk.err
    THEN Step("ExtractWriteError", f, ops, flt = "mkdir")
    ELSE LET made == ops \o MadeOps(mk.made, k) IN
    IF own # "none" /\ flt = "chown" THEN Step("ExtractWriteError", mk.fs, made, TRUE)
    ELSE LET f1 == IF own = "none" THEN mk.fs ELSE Chown(mk.fs, parentDir, own)
             l1 == IF own = "none" THEN made ELSE Append(made, Op("chown", parentDir, k))
             exists == target \in DOMAIN f1 IN
    IF flt = "create" \/ (exists /\ f1[target].kind = "dir")
    THEN Step("ExtractWriteError", f1, l1, flt = "create")
    ELSE LET who == IF exists THEN f1[target].owner ELSE "invoker"
             l2 == Append(l1, Op(IF exists THEN "truncate" ELSE "create", target, k)) IN
    IF flt = "copy"
    THEN Step("ExtractWriteError", (target :> FileNode(Partial, who)) @@ f1,
              Append(l2, Op("write", target, k)), TRUE)
    ELSE LET f2 == (target :> FileNode(data, who)) @@ f1
             l3 == Append(l2, Op("write", target, k)) IN
    IF own = "none" THEN Step(Nil, f2, l3, FALSE)
    ELSE IF flt = "chownfile" THEN Step("ExtractWriteError", f2, l3, TRUE)
    ELSE Step(Nil, Chown(f2, target, own), Append(l3, Op("chown", target, k)), FALSE)

\* one turn of the loop of extractTarball on entry e, the k-th of the archive,
\* with the failure flt the environment raises in it, if any
extractEntry(f, destPath, e, k, own, flt) ==
    LET targetPath == Join(<<destPath, e.name>>)
        ops == <<Op("next", e.name, k)>> IN
    IF flt = "header" THEN Step("ArchiveReadError", f, ops, TRUE)
    ELSE IF e.kind = "dir" THEN extractDir(f, targetPath, k, own, flt, ops)
    ELSE extractFile(f, targetPath, e.data, k, own, flt, ops)

-----------------------------------------------------------------------------
(* The host of a run                                                       *)

destRoot  == <<Slash, "d">>
storeRoot == <<Slash, "s">>
home      == <<Slash, "h">>

\* the path made of the given segments under "/"
RECURSIVE Abs(_)
Abs(segs) == IF segs = <<>> THEN <<>> ELSE <<Slash>> \o Head(segs) \o Abs(Tail(segs))

\* f with the directories of dirs (ancestors first) owned by root
RECURSIVE WithDirs(_, _)
WithDirs(f, dirs) ==
    IF dirs = <<>> THEN f
    ELSE LET mk == MkdirAll(f, Head(dirs))
         IN  WithDirs([q \in DOMAIN mk.fs |-> [mk.fs[q] EXCEPT !.owner = "root"]],
                      Tail(dirs))

\* f with a file at p (its directories made first) holding data
WithFile(f, p, data) == (p :> FileNode(data, "root")) @@ WithDirs(f, <<Dir(p)>>)

\* "/" with an empty destination root and an empty store root
BaseFs == WithDirs((Root :> DirNode("root")), <<destRoot, storeRoot>>)

\* the values the planner's specifications leave the host at
HostIdle ==
    /\ cmd = "none"
    /\ isTerminal = FALSE
    /\ env = Env(<<>>, NoHome)
    /\ account = Account("missing", "missing")
    /\ fs = BaseFs
    /\ tarball = NoTarball
    /\ stdout = <<>>
    /\ stderr = <<>>
    /\ idx = 0
    /\ modelPath = <<>>
    /\ srcRoot = <<>>
    /\ owner = "none"
    /\ fault = "none"
    /\ log = <<>>

-----------------------------------------------------------------------------
(* Inputs of the name resolver                                             *)

MaxPartLen == 2

RECURSIVE StringsOver(_, _)
StringsOver(A, n) ==
    IF n = 0 THEN {<<>>}
    ELSE LET S == StringsOver(A, n - 1)
         IN  S \cup {Append(s, c) : s \in S, c \in A}

\* non-empty strings holding neither "/" nor ":"
Plain == StringsOver({"a", Dot}, MaxPartLen) \ {<<>>}

\* the reference written in shape k from the four parts
Written(k, h, n, m, t) ==
    CASE k = 1 -> h \o <<Slash>> \o n \o <<Slash>> \o m \o <<Colon>> \o t
      [] k = 2 -> n \o <<Slash>> \o m \o <<Colon>> \o t
      [] k = 3 -> n \o <<Slash>> \o m
      [] k = 4 -> m \o <<Colon>> \o t
      [] k = 5 -> m

\* the parts shape k does not write are absent
Given(k, h, n, m, t) ==
    [shape |-> k,
     host |-> IF k = 1 THEN h ELSE Absent,
     namespace |-> IF k \in {1, 2, 3} THEN n ELSE Absent,
     model |-> m,
     tag |-> IF k \in {1, 2, 4} THEN t ELSE Absent]

Givens ==
    {Given(k, h, n, m, t) : k \in 1..5, h \in Plain, n \in Plain,
                            m \in Plain \cup {<<>>}, t \in Plain}

Or(x, d) == IF x = Absent THEN d ELSE x

InitName ==
    /\ pc = "name"
    /\ given \in Givens
    /\ args = Written(given.shape, Or(given.host, <<>>), Or(given.namespace, <<>>),
                      given.model, Or(given.tag, <<>>))
    /\ modelName = NilName
    /\ manifest = ManifestFile("unreadable", Manifest(<<>>, <<>>))
    /\ filePaths = <<>>
    /\ result = Nil
    /\ HostIdle

\* modelName, err := parseModelName(modelNameStr)
Parse ==
    /\ pc = "name"
    /\ modelName' = parseModelName(args)
    /\ result' = IF modelName' = NilName THEN "InvalidReference" ELSE Nil
    /\ pc' = "parsed"
    /\ UNCHANGED <<args, given, manifest, filePaths, hostVars>>

NextName == Parse

SpecName == InitName /\ [][NextName]_vars

-----------------------------------------------------------------------------
(* Inputs of the path planner                                              *)

MaxLayers == 2

\* digests: an algorithm tag or none, then hex or something path-like
DigestTags  == {<<>>, sha256Colon, <<"sha512", Colon>>}
DigestTails == {<<>>, <<"a">>, <<"a", Slash, "b">>}
Digests == {p \o t : p \in DigestTags, t \in DigestTails}

RECURSIVE SeqsUpTo(_, _)
SeqsUpTo(S, n) ==
    IF n = 0 THEN {<<>>}
    ELSE LET T == SeqsUpTo(S, n - 1)
         IN  T \cup {Append(t, x) : t \in T, x \in S}

ManifestFiles ==
    {ManifestFile("ok", Manifest(c, ls)) : c \in Digests, ls \in SeqsUpTo(Digests, MaxLayers)}
    \cup {ManifestFile("unreadable", Manifest(<<>>, <<>>)),
          ManifestFile("malformed", Manifest(<<>>, <<>>))}

\* references as the command line gives them
RefNames ==
    { <<"m">>,
      <<"m", Colon, "t">>,
      <<"n", Slash, "m">>,
      <<"h", Slash, "n", Slash, "m", Colon, "t">>,
      <<"m", Colon, Dot, Dot>>,
      <<"n", Slash, "m", Slash>>,
      <<Dot, Dot, Slash, Dot, Dot, Slash, "m", Colon, "t">> }

InitPaths ==
    /\ pc = "parsed"
    /\ args \in RefNames
    /\ given = Given(5, Absent, Absent, args, Absent)
    /\ modelName = parseModelName(args)
    /\ manifest \in ManifestFiles
    /\ filePaths = <<>>
    /\ result = Nil
    /\ HostIdle

\* filePaths, err := getFilePaths(modelName, modelPath)
GetFilePaths ==
    /\ pc = "parsed"
    /\ modelName # NilName
    /\ LET r == getFilePaths(modelName, manifest)
       IN  /\ filePaths' = r.paths
           /\ result' = r.err
    /\ pc' = "planned"
    /\ UNCHANGED <<args, given, modelName, manifest, hostVars>>

NextPaths == GetFilePaths

SpecPaths == InitPaths /\ [][NextPaths]_vars

-----------------------------------------------------------------------------
(* Inputs of the commands                                                  *)

MaxEntries == 2

File(base, exts) == <<base>> \o exts

\* names of the archive file
FileNames ==
    { File("m", SuffixTar), File("m", Suffix("tar", "gz")), File("m", Suffix("tar", "bz")),
      File("m", Suffix("tar", "bz2")), File("m", Suffix("tar", "xz")),
      File("m", <<Dot, "zip">>), <<"tar">> }

\* archive entries: nested, repeated, absolute and ".." names
Entries ==
    { TarEntry(<<"a">>, "dir", Empty),
      TarEntry(<<"a">>, "file", Bytes("x")),
      TarEntry(<<"a">>, "file", Bytes("y")),
      TarEntry(<<"a", Slash, "b">>, "dir", Empty),
      TarEntry(<<"a", Slash, "b">>, "file", Bytes("x")),
      TarEntry(<<Slash, "a">>, "file", Bytes("y")),
      TarEntry(<<Dot, Dot, Slash, "x">>, "file", Bytes("x")) }

Tarballs ==
    {NoTarball} \cup
    {Tarball("ok", c, es) : c \in {"tar", "gz"}, es \in SeqsUpTo(Entries, MaxEntries)}

\* hosts: the environment, the account database, whether systemPath exists
Host(e, a, sys) == [env |-> e, account |-> a, sys |-> sys]

Hosts(root) ==
    { Host(Env(root, home), Account("ok", "ok"), FALSE),
      Host(Env(root, home), Account("missing", "ok"), FALSE),
      Host(Env(root, home), Account("ok", "missing"), FALSE),
      Host(Env(root, home), Account("badid", "ok"), FALSE),
      Host(Env(<<>>, home), Account("ok", "ok"), TRUE),
      Host(Env(<<>>, home), Account("ok", "ok"), FALSE),
      Host(Env(<<>>, NoHome), Account("ok", "ok"), FALSE) }

HostFs(f, h) == IF h.sys THEN WithDirs(f, <<systemPath>>) ELSE f

\* manifests a store may hold
Docs ==
    { ManifestFile("ok", Manifest(<<"sha256", Colon, "a">>, << <<"sha256", Colon, "b">> >>)),
      ManifestFile("ok", Manifest(<<>>, << <<"sha256", Colon, "a">>, <<>>,
                                          <<"sha256", Colon, "a">> >>)),
      ManifestFile("ok", Manifest(<<"sha512", Colon, "a">>, <<>>)),
      ManifestFile("malformed", Manifest(<<>>, <<>>)) }

BlobA   == Abs(<< <<"s">>, blobs, <<"sha256", "-", "a">> >>)
BlobB   == Abs(<< <<"s">>, blobs, <<"sha256", "-", "b">> >>)
Blob512 == Abs(<< <<"s">>, blobs, <<"sha256", "-", "sha512", Colon, "a">> >>)

\* a store under /s: the manifest of registry.ollama.ai/library/m:latest, the
\* same document at /x/y (where the reference ../../x:y points), and blobs
Store(doc, withB) ==
    LET f1 == WithFile(BaseFs, Abs(<< <<"s">>, manifests, registry, library, <<"m">>,
                                     latest >>), doc)
        f2 == WithFile(f1, Abs(<< <<"x">>, <<"y">> >>), doc)
        f3 == WithFile(WithFile(f2, BlobA, Bytes("A")), Blob512, Bytes("C"))
    IN  IF withB THEN WithFile(f3, BlobB, Bytes("B")) ELSE f3

Stores == {Store(doc, withB) : doc \in Docs, withB \in BOOLEAN}

\* references given to save
SaveNames ==
    { <<"m">>,
      <<"library", Slash, "m", Colon, "latest">>,
      <<"registry.ollama.ai", Slash, "library", Slash, "m", Colon, "latest">>,
      <<"m", Colon, "t">>,
      <<Colon, "t">>,
      <<"m", Colon, Dot, Dot>>,
      <<Dot, Dot, Slash, Dot, Dot, Slash, "x", Colon, "y">> }

PlanIdle ==
    /\ given = Given(5, Absent, Absent, <<>>, Absent)
    /\ modelName = NilName
    /\ manifest = Unreadable
    /\ filePaths = <<>>
    /\ result = Nil

RunIdle ==
    /\ stdout = <<>>
    /\ stderr = <<>>
    /\ idx = 0
    /\ modelPath = <<>>
    /\ srcRoot = <<>>
    /\ owner = "none"
    /\ fault = "none"
    /\ log = <<>>

\* `ollie save NAME`, standard output a terminal or not
InitSave ==
    /\ pc = "save"
    /\ cmd = "save"
    /\ args \in SaveNames
    /\ isTerminal \in BOOLEAN
    /\ \E h \in Hosts(storeRoot), st \in Stores :
          /\ env = h.env
          /\ account = h.account
          /\ fs = HostFs(st, h)
    /\ tarball = NoTarball
    /\ PlanIdle
    /\ RunIdle

\* `ollie load FILE`
InitLoad ==
    /\ pc = "load"
    /\ cmd = "load"
    /\ args \in FileNames
    /\ isTerminal = FALSE
    /\ \E h \in Hosts(destRoot) :
          /\ env = h.env
          /\ account = h.account
          /\ fs = HostFs(BaseFs, h)
    /\ tarball \in Tarballs
    /\ PlanIdle
    /\ RunIdle

Init == InitSave \/ InitLoad

-----------------------------------------------------------------------------
(* The commands                                                            *)

\* saveCmd.RunE up to createTarball
SaveStart ==
    /\ pc = "save"
    /\ \E r \in {savePrelude(args, isTerminal, env, fs)} :
           /\ result' = r.result
           /\ modelName' = r.modelName
           /\ modelPath' = r.modelPath
           /\ manifest' = r.manifest
           /\ filePaths' = r.filePaths
           /\ log' = r.log
           /\ pc' = IF r.result = Nil THEN "saving" ELSE "done"
           /\ idx' = IF r.result = Nil THEN 1 ELSE idx
    /\ UNCHANGED <<args, given, cmd, isTerminal, env, account, fs, tarball, stdout, stderr,
                   srcRoot, owner, fault>>

\* createTarball: one turn of its loop
SaveEntry ==
    /\ pc = "saving"
    /\ idx <= Len(filePaths)
    /\ \E flt \in {"none", "write", "read"} :
          LET r == tarOne(fs, modelPath, filePaths[idx], idx, flt)
          IN  /\ flt # "none" => r.hit
              /\ stdout' = stdout \o r.out
              /\ log' = log \o r.log
              /\ fault' = IF r.hit THEN flt ELSE fault
              /\ result' = r.err
              /\ pc' = IF r.err = Nil THEN "saving" ELSE "done"
              /\ idx' = IF r.err = Nil THEN idx + 1 ELSE idx
    /\ UNCHANGED <<args, given, modelName, manifest, filePaths, cmd, isTerminal, env, account,
                   fs, tarball, stderr, modelPath, srcRoot, owner>>

\* createTarball returns nil after the last path, and RunE with it
SaveFinish ==
    /\ pc = "saving"
    /\ idx > Len(filePaths)
    /\ pc' = "saved"
    /\ UNCHANGED <<args, given, modelName, manifest, filePaths, result, hostVars>>

\* the archive standard output was redirected into is given to `ollie load`,
\* under a name f and an OLLAMA_MODELS of the user's choice
LoadSaved ==
    /\ pc = "saved"
    /\ \E f \in FileNames, root \in {destRoot, storeRoot} :
          /\ args' = f
          /\ env' = Env(root, env.home)
    /\ tarball' = Tarball("ok", "tar", stdout)
    /\ srcRoot' = modelPath
    /\ cmd' = "load"
    /\ pc' = "load"
    /\ idx' = 0
    /\ log' = <<>>
    /\ UNCHANGED <<given, modelName, manifest, filePaths, result, isTerminal, account, fs,
                   stdout, stderr, modelPath, owner, fault>>

\* loadCmd.RunE and extractTarball up to the loop
LoadStart ==
    /\ pc = "load"
    /\ LET gp == getOllamaModelsPath(env, fs)
           stats == [i \in 1..Len(gp.stats) |-> Op("stat", gp.stats[i], 0)]
           r == loadPrelude(args, account, tarball)
       IN  /\ log' = stats
           /\ modelPath' = gp.path
           /\ result' = IF gp.err # Nil THEN gp.err ELSE r.err
           /\ owner' = IF gp.err # Nil THEN "none" ELSE r.owner
           /\ pc' = IF gp.err = Nil /\ r.err = Nil THEN "extracting" ELSE "done"
           /\ idx' = IF gp.err = Nil /\ r.err = Nil THEN 1 ELSE idx
    /\ UNCHANGED <<args, given, modelName, manifest, filePaths, cmd, isTerminal, env, account,
                   fs, tarball, stdout, stderr, srcRoot, fault>>

\* the failures the environment can raise while an entry is handled
Faults == {"none", "header", "mkdir", "chown", "create", "copy", "chownfile"}

\* tarReader.Next() on bytes the selected reader cannot decode
Undecodable == Codec(args) # tarball.codec

\* a plausible slip: a failed entry is skipped and the loop goes on
ExtractEntryGoOn ==
    /\ pc = "extracting"
    /\ ~Undecodable
    /\ idx <= Len(tarball.entries)
    /\ \E flt \in Faults :
          LET r == extractEntry(fs, modelPath, tarball.entries[idx], idx, owner, flt)
          IN  /\ flt # "none" => r.hit
              /\ fs' = r.fs
              /\ log' = log \o r.log
              /\ fault' = IF r.hit THEN flt ELSE fault
    /\ idx' = idx + 1
    /\ UNCHANGED <<planVars, cmd, isTerminal, env, account, tarball, stdout, stderr, modelPath,
                   srcRoot, owner>>

\* extractTarball: one turn of its loop, on the entry tarReader.Next() returns
ExtractEntry ==
    /\ pc = "extracting"
    /\ ~Undecodable
    /\ idx <= Len(tarball.entries)
    /\ \E flt \in Faults :
          LET r == extractEntry(fs, modelPath, tarball.entries[idx], idx, owner, flt)
          IN  /\ flt # "none" => r.hit
              /\ fs' = r.fs
              /\ log' = log \o r.log
              /\ fault' = IF r.hit THEN flt ELSE fault
              /\ result' = r.err
              /\ pc' = IF r.err = Nil THEN "extracting" ELSE "done"
              /\ idx' = IF r.err = Nil THEN idx + 1 ELSE idx
    /\ UNCHANGED <<args, given, modelName, manifest, filePaths, cmd, isTerminal, env, account,
                   tarball, stdout, stderr, modelPath, srcRoot, owner>>

\* tarReader.Next() fails on its first call: the bytes are not what the
\* reader selected by the suffix decodes
ExtractGarbled ==
    /\ pc = "extracting"
    /\ Undecodable
    /\ result' = "ArchiveReadError"
    /\ pc' = "done"
    /\ UNCHANGED <<args, given, modelName, manifest, filePaths, hostVars>>

\* tarReader.Next() returns io.EOF: extractTarball returns nil and RunE prints
\* the confirmation
LoadFinish ==
    /\ pc = "extracting"
    /\ ~Undecodable
    /\ idx > Len(tarball.entries)
    /\ result' = Nil
    /\ stderr' = Append(stderr, "Successfully loaded model")
    /\ pc' = "done"
    /\ UNCHANGED <<args, given, modelName, manifest, filePaths, cmd, isTerminal, env, account,
                   fs, tarball, stdout, idx, modelPath, srcRoot, owner, fault, log>>

Next ==
    \/ SaveStart
    \/ SaveEntry
    \/ SaveFinish
    \/ LoadSaved
    \/ LoadStart
    \/ ExtractEntry
    \/ ExtractGarbled
    \/ LoadFinish

Spec == Init /\ [][Next]_vars

-----------------------------------------------------------------------------
(* What the claims say of the planned path list                            *)

\* the digests of a manifest that are not empty, config first
Listed(m) == SelectSeq(<<m.Config>> \o m.Layers, LAMBDA d : d # <<>>)

\* manifests/{host}/{namespace}/{model}/{tag}, letter for letter
Literal(mn) ==
    manifests \o <<Slash>> \o mn.Host \o <<Slash>> \o mn.Namespace \o <<Slash>>
              \o mn.Model \o <<Slash>> \o mn.Tag

\* no "/"-separated segment of s is empty, "." or ".."
PlainSegments(s) ==
    \A i \in 1..Len(Split(s)) : Split(s)[i] \notin {<<>>, <<Dot>>, DotDot}

\* d with every ":" replaced by "-"
Dashed(d) == [i \in 1..Len(d) |-> IF d[i] = Colon THEN "-" ELSE d[i]]

Planned == pc = "planned" /\ manifest.state = "ok"

\* the blob entries follow the manifest entry, one per listed digest, in order
BlobsInOrder ==
    /\ Len(filePaths) = 1 + Len(Listed(manifest.doc))
    /\ \A k \in 1..Len(Listed(manifest.doc)) :
          filePaths[k + 1] = Join(<<blobs, Sha(Listed(manifest.doc)[k])>>)
    /\ \A i \in 1..Len(filePaths) : filePaths[i] # <<>> /\ filePaths[i][1] # Slash

-----------------------------------------------------------------------------
EmptyModelRejected ==
    (pc = "parsed" /\ given.model = <<>>) =>
        (result = "InvalidReference" /\ modelName = NilName)

\* C3 as stated: for a readable, well-formed manifest the list is
\* manifests/{host}/{namespace}/{model}/{tag} itself, then one blob path per
\* non-empty digest, config first, layers in manifest order, all relative.
PathListLiteral ==
    Planned =>
        /\ result = Nil
        /\ filePaths[1] = Literal(modelName)
        /\ BlobsInOrder

\* C3 amended: the first element is manifests/{host}/{namespace}/{model}/{tag}
\* cleaned as filepath.Join cleans it, which is that very string whenever no
\* segment of a part is empty, "." or ".."; the rest is as stated.
PathListCleaned ==
    Planned =>
        /\ result = Nil
        /\ filePaths[1] = Clean(Literal(modelName))
        /\ (PlainSegments(Literal(modelName)) => filePaths[1] = Literal(modelName))
        /\ BlobsInOrder

PathListCleanedWitness ==
    /\ Planned
    /\ manifest.doc.Config # <<>>
    /\ Len(manifest.doc.Layers) = 2
    /\ manifest.doc.Layers[1] = <<>>
    /\ manifest.doc.Layers[2] # <<>>
    /\ Len(filePaths) = 3
    /\ modelName.Tag = DotDot

\* C4 as stated: the blob path of a listed digest d is blobs/ followed by d
\* with ":" replaced by "-".
BlobPathDashes ==
    Planned =>
        \A k \in 1..Len(Listed(manifest.doc)) :
            filePaths[k + 1] = blobs \o <<Slash>> \o Dashed(Listed(manifest.doc)[k])

\* C4 amended: the blob path of a listed digest d holding no "/" is
\* blobs/sha256-x when d is sha256:x, and blobs/sha256-d for any other d.
BlobPathSha256 ==
    Planned =>
        \A k \in 1..Len(Listed(manifest.doc)) :
            LET d == Listed(manifest.doc)[k]
            IN  ~Has(d, Slash) =>
                    filePaths[k + 1] =
                        blobs \o <<Slash>> \o sha256Dash \o
                        (IF HasPrefix(d, sha256Colon)
                         THEN SubSeq(d, Len(sha256Colon) + 1, Len(d)) ELSE d)

BlobPathSha256Witness ==
    /\ Planned
    /\ manifest.doc.Config = <<"sha512", Colon, "a">>
    /\ manifest.doc.Layers = << <<"sha256", Colon, "a">> >>
    /\ filePaths[2] = <<"blobs", Slash, "sha256", "-", "sha512", Colon, "a">>
    /\ filePaths[3] = <<"blobs", Slash, "sha256", "-", "a">>

-----------------------------------------------------------------------------
(* What the claims say of save and load                                    *)

LoadDone == cmd = "load" /\ pc = "done"

\* C5: with standard output a terminal, save ends with the refusal and has
\* done nothing else: no outcome of parsing the name (valid or not), no stat,
\* no manifest read, no source file touched, nothing written to standard output.
TerminalRefusedFirst ==
    (cmd = "save" /\ isTerminal /\ pc # "save") =>
        /\ pc = "done"
        /\ result = "RefusedTerminalOutput"
        /\ modelName = NilName
        /\ manifest = Unreadable
        /\ filePaths = <<>>
        /\ log = <<>>
        /\ stdout = <<>>

TerminalRefusedFirstWitness ==
    /\ cmd = "save"
    /\ isTerminal
    /\ pc = "done"
    /\ args = <<Colon, "t">>
    /\ result = "RefusedTerminalOutput"

\* the file name ends in none of the five suffixes load accepts
Unrecognized(fileName) ==
    \A suf \in {SuffixTar, Suffix("tar", "gz"), Suffix("tar", "bz"), Suffix("tar", "bz2"),
                Suffix("tar", "xz")} : ~HasSuffix(fileName, suf)

\* the filesystems a run can start from; save never changes one
InitialFs ==
    {HostFs(BaseFs, h) : h \in Hosts(destRoot)} \cup
    {HostFs(st, h) : st \in Stores, h \in Hosts(storeRoot)}

\* C6 as stated: load of a file with an unrecognized suffix fails with
\* UnsupportedFormat whatever the state of the file and of the account, and
\* changes nothing on the filesystem.
UnsupportedWhatever ==
    (LoadDone /\ Unrecognized(args)) =>
        /\ result = "UnsupportedFormat"
        /\ Touched(log) = {}
        /\ fs \in InitialFs

\* C6 amended: load of a file with an unrecognized suffix fails and changes
\* nothing on the filesystem; the error is UnsupportedFormat when the models
\* directory was resolved, the account lookup returned no error and the file
\* could be opened, and is the error of the first of these steps that failed
\* otherwise.
UnsupportedAfterOpen ==
    (LoadDone /\ Unrecognized(args)) =>
        /\ Touched(log) = {}
        /\ fs \in InitialFs
        /\ stderr = <<>>
        /\ result =
             IF env.OLLAMA_MODELS = <<>> /\ systemPath \notin DOMAIN fs /\ env.home = NoHome
             THEN "HomeDirError"
             ELSE IF account.user = "badid" /\ account.group # "missing"
             THEN "AccountLookupError"
             ELSE IF tarball.state = "missing" THEN "OpenError"
             ELSE "UnsupportedFormat"

UnsupportedAfterOpenWitness ==
    /\ LoadDone
    /\ args = File("m", <<Dot, "zip">>)
    /\ tarball.state = "ok"
    /\ Len(tarball.entries) = 2
    /\ result = "UnsupportedFormat"

\* C7: after a save that succeeded, a load of the archive it wrote (named
\* *.tar) into the empty root /d, on a host whose account lookup returns no
\* error and with no I/O failure raised, succeeds, and every planned relative
\* path is then a file under the destination with the content of the source
\* file at the same relative path.
RoundTrip ==
    (LoadDone /\ srcRoot # <<>> /\ modelPath = destRoot /\ Codec(args) = "tar"
        /\ getOllamaUIDGID(account).err = Nil /\ fault = "none") =>
        /\ result = Nil
        /\ \A i \in 1..Len(filePaths) :
             LET to == Join(<<modelPath, filePaths[i]>>)
                 from == Join(<<srcRoot, filePaths[i]>>)
             IN  /\ to \in DOMAIN fs
                 /\ fs[to].kind = "file"
                 /\ fs[to].data = fs[from].data

RoundTripWitness ==
    /\ LoadDone
    /\ srcRoot = storeRoot
    /\ modelPath = destRoot
    /\ result = Nil
    /\ Len(filePaths) = 3
    /\ Abs(<< <<"d">>, blobs, <<"sha256", "-", "b">> >>) \in DOMAIN fs
    /\ fs[Abs(<< <<"d">>, blobs, <<"sha256", "-", "b">> >>)].data = Bytes("B")

\* p lies under root, root itself excluded
Under(root, p) == HasPrefix(p, root \o <<Slash>>)

\* C8: with the ollama user and group both present, after a load that
\* returned success every directory and file it created under the destination
\* root is owned by ollama.
CreatedAreOwned ==
    (LoadDone /\ result = Nil /\ account = Account("ok", "ok")) =>
        \A p \in Created(log) : Under(modelPath, p) => fs[p].owner = "ollama"

\* the path entry k of the archive is extracted to
Target(k) == Join(<<modelPath, tarball.entries[k].name>>)

\* entry k is in place: its target is there, of its kind, owned by the account
\* if there is one, and holds its content unless a later entry handled so far
\* writes the same path
Extracted(k) ==
    LET e == tarball.entries[k]
        t == Target(k)
        later == {j \in (k + 1)..Len(tarball.entries) : j <= idx /\ Target(j) = t}
    IN  /\ t \in DOMAIN fs
        /\ fs[t].kind = e.kind
        /\ owner # "none" => fs[t].owner = owner
        /\ (e.kind = "file" /\ later = {}) => fs[t].data = e.data

Reads(k) == {i \in 1..Len(log) : log[i].op = "next" /\ log[i].k = k}

\* C9: load handles the entries in archive order and stops at the first that
\* fails: at any point of the loop, and after it, every entry before the
\* current one was read once and is in place, nothing was read or written for
\* an entry after the current one, no entry was read twice, a run that ended
\* with an error printed no confirmation, and a run that ended without one
\* went through every entry.
InOrderStopAtFirst ==
    (cmd = "load" /\ pc \in {"extracting", "done"} /\ idx >= 1) =>
        /\ \A k \in 1..(idx - 1) :
              k <= Len(tarball.entries) /\ Extracted(k) /\ Cardinality(Reads(k)) = 1
        /\ \A i \in 1..Len(log) :
              /\ log[i].k <= idx
              /\ log[i].k <= Len(tarball.entries)
              /\ i > 1 => log[i - 1].k <= log[i].k
        /\ Cardinality(Reads(idx)) <= 1
        /\ (pc = "done" /\ result # Nil) => stderr = <<>>
        /\ (pc = "done" /\ result = Nil) =>
              idx = Len(tarball.entries) + 1 /\ Len(stderr) = 1

InOrderStopAtFirstWitness ==
    /\ LoadDone
    /\ result = "ExtractWriteError"
    /\ fault = "copy"
    /\ Len(tarball.entries) = 2
    /\ idx = 1
    /\ Target(1) \in DOMAIN fs
    /\ fs[Target(1)].data = Partial
    /\ Target(2) \notin DOMAIN fs

\* C10: whatever the entry names, every path load creates, truncates, writes
\* or chowns lies inside the destination root (here the existing root /d).
StaysInsideRoot ==
    (cmd = "load" /\ modelPath = destRoot) =>
        \A p \in Touched(log) : Inside(modelPath, p)

====
